---------------------------- MODULE Spec2Model ----------------------------
(***************************************************************************)
(* A model of the PKIsensee String library: CharUtilT (CharUtil.h) and     *)
(* StrUtilT / StrListT / StringUtil (StrUtil.h).                           *)
(*                                                                         *)
(* A string is a sequence of code units.  For the text operations a code   *)
(* unit is written as a one-character string ("a", "&", "\t"); for the     *)
(* width conversions (GetUtf8 / GetUtf16) a code unit is its number.       *)
(* Every library function is modelled by an operator that computes what    *)
(* the code computes, and by an action that calls it on the state.  Each   *)
(* family of functions has its own specification (SpecNumeric, SpecXml,    *)
(* SpecDuration, SpecFileName, SpecTrim, SpecList, SpecUtf); the variables *)
(* a specification does not use keep their initial values.                 *)
(***************************************************************************)
EXTENDS Integers, Sequences, FiniteSets

VARIABLES
  pc,               \* position of the caller: before, inside or after a call
  str,              \* the strT& str parameter of the To... functions
  orig,             \* the caller's copy of the string before the first call
  prev,             \* the string as it was before the latest call
  fn,               \* the function of the family the caller uses
  trimCharset,      \* ToTrimmed*: the trimCharset parameter
  firstNot,         \* ToTrimmedLeading / ToTrimmed: local firstNot
  lastNot,          \* ToTrimmedTrailing / ToTrimmed: local lastNot
  convertWildcards, \* ToGoodFileName: the convertWildcards parameter
  allowWildcards,   \* IsGoodFileName: the allowWildcards parameter
  result,           \* the bool a predicate returned
  index,            \* ToXmlSafe: local index
  pos,              \* ToXmlSafe: local pos
  totalSeconds,     \* GetDurationStr: parameter
  minDays,          \* GetDurationStr: parameter
  duration,         \* GetDurationStr: the string returned
  lhs,              \* operator==: the left StrListT (its list_)
  rhs,              \* operator==: the right StrListT (its list_)
  build,            \* the build's char / wchar_t representation
  narrow,           \* GetUtf16's argument, GetUtf8's result (units 0..255)
  wide              \* GetUtf16's result, GetUtf8's argument (wchar_t values)

strVars  == <<str, orig, prev, fn>>
trimVars == <<trimCharset, firstNot, lastNot>>
fileVars == <<convertWildcards, allowWildcards>>
xmlVars  == <<index, pos>>
durVars  == <<totalSeconds, minDays, duration>>
listVars == <<lhs, rhs>>
utfVars  == <<build, narrow, wide>>
vars == <<pc, strVars, trimVars, fileVars, xmlVars, durVars, listVars,
          utfVars, result>>

----------------------------------------------------------------------------
(* std::basic_string operations the library calls.  Positions are 0-based  *)
(* as in C++; the sequence index of position p is p + 1.                   *)

\* strT::npos, the "not found" position.
NPos == -1

Min(a, b) == IF a < b THEN a ELSE b

\* All strings of at most n units over the alphabet A.
StringsUpTo(A, n) == UNION { [1..k -> A] : k \in 0..n }

\* str.find( c, from ): the first position >= from holding c, or npos.
Find(s, c, from) ==
  LET hits == { p \in from..(Len(s) - 1) : s[p + 1] = c }
  IN  IF hits = {} THEN NPos ELSE CHOOSE p \in hits : \A q \in hits : p <= q

\* The set of units of a string (find_first_not_of treats it as a set).
Units(s) == { s[i] : i \in 1..Len(s) }

\* str.find_first_not_of( set ): first position whose unit is not in set.
FindFirstNotOf(s, set) ==
  LET hits == { p \in 0..(Len(s) - 1) : s[p + 1] \notin Units(set) }
  IN  IF hits = {} THEN NPos ELSE CHOOSE p \in hits : \A q \in hits : p <= q

\* str.find_last_not_of( set ): last position whose unit is not in set.
FindLastNotOf(s, set) ==
  LET hits == { p \in 0..(Len(s) - 1) : s[p + 1] \notin Units(set) }
  IN  IF hits = {} THEN NPos ELSE CHOOSE p \in hits : \A q \in hits : p >= q

\* str.replace( p, n, code ): n units at p replaced by the string code.
Replace(s, p, n, code) ==
  SubSeq(s, 1, p) \o code \o SubSeq(s, p + n + 1, Len(s))

\* str.assign( s, p, n ): the substring of s at p of min(n, size - p) units.
Assign(s, p, n) == SubSeq(s, p + 1, p + Min(n, Len(s) - p))

\* str.resize( n ) for n <= size: the first n units.
Resize(s, n) == SubSeq(s, 1, n)

----------------------------------------------------------------------------
(* CharUtilT: classification in the classic locale.                         *)

Digits == <<"0", "1", "2", "3", "4", "5", "6", "7", "8", "9">>

\* CharUtilT::IsDigit: std::isdigit in the classic locale.
IsDigitChar(c) == c \in Units(Digits)

\* CharUtilT::IsNumeric: a digit or '.'.
IsNumericChar(c) == IsDigitChar(c) \/ c = "."

----------------------------------------------------------------------------
(* StrUtilT::IsNumeric                                                     *)

\* StrUtilT::IsNumeric( str ).  all_of is true of an empty range; after a
\* leading '-' it runs over the subrange from begin + 1.
IsNumeric(s) ==
  IF s = <<>> THEN FALSE
  ELSE IF s[1] = "-" THEN \A i \in 2..Len(s) : IsNumericChar(s[i])
  ELSE \A i \in 1..Len(s) : IsNumericChar(s[i])

----------------------------------------------------------------------------
(* The values the variables of a family hold while another family runs.    *)

IdleStr  == str = <<>> /\ orig = <<>> /\ prev = <<>> /\ fn = ""
IdleTrim == trimCharset = <<>> /\ firstNot = NPos /\ lastNot = NPos
IdleFile == convertWildcards = "" /\ allowWildcards = ""
IdleXml  == index = 0 /\ pos = NPos
IdleDur  == totalSeconds = 0 /\ minDays = 0 /\ duration = <<>>
IdleList == lhs = <<>> /\ rhs = <<>>
IdleUtf  ==
  /\ build = [charSigned |-> FALSE, wcharBits |-> 32, wcharSigned |-> FALSE]
  /\ narrow = <<>>
  /\ wide = <<>>

----------------------------------------------------------------------------
(* SpecNumeric: a caller hands one string to StrUtilT::IsNumeric.          *)

\* Longest generated argument of IsNumeric.
MaxNumLen == 4

NumAlphabet == {"-", ".", "1", "a"}

NumExamples ==
  { <<"-", "1", "2", "3", ".", "5">>, <<"1", "2", "-", "3">>, <<"-">>, <<>> }

NumInputs == StringsUpTo(NumAlphabet, MaxNumLen) \cup NumExamples

InitNumeric ==
  /\ pc = "call"
  /\ str \in NumInputs
  /\ orig = str /\ prev = str /\ fn = "IsNumeric"
  /\ result = FALSE
  /\ IdleTrim /\ IdleFile /\ IdleXml /\ IdleDur /\ IdleList /\ IdleUtf

IsNumericCall ==
  /\ pc = "call"
  /\ fn = "IsNumeric"
  /\ result' = IsNumeric(str)
  /\ pc' = "done"
  /\ UNCHANGED <<strVars, trimVars, fileVars, xmlVars, durVars, listVars,
                 utfVars>>

NextNumeric == IsNumericCall

SpecNumeric == InitNumeric /\ [][NextNumeric]_vars

\* The string left after dropping at most one leading '-'.
DropLeadingMinus(s) == IF s # <<>> /\ s[1] = "-" THEN Tail(s) ELSE s

\* What the specification says IsNumeric returns.
NumericAsSpecified(s) ==
  /\ DropLeadingMinus(s) # <<>>
  /\ \A i \in 1..Len(DropLeadingMinus(s)) :
       DropLeadingMinus(s)[i] \in
         {"0", "1", "2", "3", "4", "5", "6", "7", "8", "9", "."}

\* C1: IsNumeric(s) is true iff s, after dropping at most one leading '-',
\* is non-empty and every remaining character is a decimal digit or '.';
\* so "" and "-" and "12-3" are not numeric and "-123.5" is.
C1_IsNumericAsSpecified ==
  (pc = "done" /\ fn = "IsNumeric") => (result <=> NumericAsSpecified(str))

\* The part of C1 the code satisfies: every string other than the lone "-".
C1_HoldsExceptLoneMinus ==
  (pc = "done" /\ fn = "IsNumeric" /\ str # <<"-">>)
    => (result <=> NumericAsSpecified(str))

----------------------------------------------------------------------------
(* SpecXml: StrUtilT::ToXmlSafe, one step of its loops at a time.          *)

\* Mutation of kXmlReplace: the entry of '&' comes last, not first.
kXmlReplace_AmpLast ==
  << [symbol |-> "<",  xmlCode |-> <<"&", "l", "t", ";">>],
     [symbol |-> ">",  xmlCode |-> <<"&", "g", "t", ";">>],
     [symbol |-> "\"", xmlCode |-> <<"&", "q", "u", "o", "t", ";">>],
     [symbol |-> "'",  xmlCode |-> <<"&", "a", "p", "o", "s", ";">>],
     [symbol |-> "&",  xmlCode |-> <<"&", "a", "m", "p", ";">>] >>

\* The table kXmlReplace: symbol and xmlCode (xmlWideCode holds the same
\* text in wide units).
kXmlReplace ==
  << [symbol |-> "&",  xmlCode |-> <<"&", "a", "m", "p", ";">>],
     [symbol |-> "<",  xmlCode |-> <<"&", "l", "t", ";">>],
     [symbol |-> ">",  xmlCode |-> <<"&", "g", "t", ";">>],
     [symbol |-> "\"", xmlCode |-> <<"&", "q", "u", "o", "t", ";">>],
     [symbol |-> "'",  xmlCode |-> <<"&", "a", "p", "o", "s", ";">>] >>

\* The entry the range-for is at: specialXml, which is kXmlReplace[ index ].
specialXml == kXmlReplace[index + 1]

\* Longest generated argument of ToXmlSafe.
MaxXmlLen == 4

XmlAlphabet == {"&", "<", ">", "\"", "'", "a", ";"}

XmlExample == <<"a", " ", "&", " ", "b", " ", "<", " ", "c">>

XmlExamples == { XmlExample, <<"&", "a", "m", "p", ";">> }

XmlInputs == StringsUpTo(XmlAlphabet, MaxXmlLen) \cup XmlExamples

InitXml ==
  /\ pc = "for"
  /\ str \in XmlInputs
  /\ orig = str /\ prev = str /\ fn = "ToXmlSafe"
  /\ index = 0
  /\ pos = NPos
  /\ result = FALSE
  /\ IdleTrim /\ IdleFile /\ IdleDur /\ IdleList /\ IdleUtf

\* The range-for enters its body for the next entry: the first find.
XmlFind ==
  /\ pc = "for"
  /\ index < Len(kXmlReplace)
  /\ pos' = Find(str, specialXml.symbol, 0)
  /\ pc' = "while"
  /\ UNCHANGED <<strVars, index, trimVars, fileVars, durVars, listVars,
                 utfVars, result>>

\* One turn of the while loop: replace at pos, find again from pos + 1.
XmlReplace ==
  /\ pc = "while"
  /\ pos # NPos
  /\ prev' = str
  /\ str' = Replace(str, pos, 1, specialXml.xmlCode)
  /\ pos' = Find(str', specialXml.symbol, pos + 1)
  /\ UNCHANGED <<pc, orig, fn, index, trimVars, fileVars, durVars, listVars,
                 utfVars, result>>

\* The while loop ends: ++index, on to the next entry.
XmlNextEntry ==
  /\ pc = "while"
  /\ pos = NPos
  /\ index' = index + 1
  /\ pc' = "for"
  /\ UNCHANGED <<strVars, pos, trimVars, fileVars, durVars, listVars,
                 utfVars, result>>

\* The range-for is past the last entry: ToXmlSafe returns.
XmlReturn ==
  /\ pc = "for"
  /\ index = Len(kXmlReplace)
  /\ pc' = "done"
  /\ UNCHANGED <<strVars, xmlVars, trimVars, fileVars, durVars, listVars,
                 utfVars, result>>

NextXml == XmlFind \/ XmlReplace \/ XmlNextEntry \/ XmlReturn

SpecXml == InitXml /\ [][NextXml]_vars

\* The function runs to its end: no step of it waits for anything.
FairSpecXml == SpecXml /\ WF_vars(NextXml)

\* The escape text the specification gives for one character.
XmlEscapeOf(c) ==
  CASE c = "&"  -> <<"&", "a", "m", "p", ";">>
    [] c = "<"  -> <<"&", "l", "t", ";">>
    [] c = ">"  -> <<"&", "g", "t", ";">>
    [] c = "\"" -> <<"&", "q", "u", "o", "t", ";">>
    [] c = "'"  -> <<"&", "a", "p", "o", "s", ";">>
    [] OTHER    -> <<c>>

RECURSIVE XmlEscaped(_)
\* The concatenation, character by character, of the escape texts.
XmlEscaped(s) ==
  IF s = <<>> THEN <<>> ELSE XmlEscapeOf(Head(s)) \o XmlEscaped(Tail(s))

\* C2: ToXmlSafe terminates, and leaves str equal to the original with each
\* of & < > " ' replaced by its escape text and every other character
\* unchanged: no escape text is escaped again.
C2_XmlSafeEscapesOnce ==
  /\ [](pc = "done" => str = XmlEscaped(orig))
  /\ <>(pc = "done")

\* C2's case: "a & b < c" has become "a &amp; b &lt; c".
C2_Witness ==
  /\ pc = "done"
  /\ orig = XmlExample
  /\ str = <<"a", " ", "&", "a", "m", "p", ";", " ", "b", " ",
             "&", "l", "t", ";", " ", "c">>

----------------------------------------------------------------------------
(* SpecDuration: StrUtilT::GetDurationStr.                                 *)

kSecondsPerHour == 60 * 60
kHoursPerDay == 24
kSecondsPerDay == kSecondsPerHour * kHoursPerDay

\* The two chrono format strings, as their fields and literal characters.
kHhMmSs == <<"%H", "h", ":", "%M", "m", ":", "%S", "s">>
kMmSs == <<"%M", "m", ":", "%S", "s">>

RECURSIVE Decimal(_)
\* std::format( "{}", n ) of an unsigned integer: its decimal digits.
Decimal(n) ==
  IF n < 10 THEN <<Digits[n + 1]>>
  ELSE Decimal(n \div 10) \o <<Digits[(n % 10) + 1]>>

\* A chrono field: the number in decimal, a 0 before a single digit.
TwoDigits(n) == IF n < 10 THEN <<"0">> \o Decimal(n) ELSE Decimal(n)

\* One element of a chrono format string applied to a std::chrono::seconds:
\* %H is the duration's whole hours (hh_mm_ss::hours, which is not reduced
\* modulo 24), %M its minutes within the hour, %S its seconds within the
\* minute; any other character is copied.
ChronoField(f, sec) ==
  CASE f = "%H" -> TwoDigits(sec \div 3600)
    [] f = "%M" -> TwoDigits((sec % 3600) \div 60)
    [] f = "%S" -> TwoDigits(sec % 60)
    [] OTHER    -> <<f>>

RECURSIVE VFormat(_, _)
\* std::vformat( fmt, std::make_format_args( sec ) ).
VFormat(fmt, sec) ==
  IF fmt = <<>> THEN <<>>
  ELSE ChronoField(Head(fmt), sec) \o VFormat(Tail(fmt), sec)

\* Mutation of GetDurationStr: totalDays > minDays for totalDays >= minDays.
GetDurationStr_DaysOnlyAbove(ts, md) ==
  LET totalHours == ts \div kSecondsPerHour
      totalDays  == totalHours \div kHoursPerDay
  IN  IF totalDays > md
        THEN Decimal(totalDays) \o <<"d", ":">>
               \o VFormat(kHhMmSs, ts - totalDays * kSecondsPerDay)
        ELSE VFormat(IF totalHours = 0 THEN kMmSs ELSE kHhMmSs, ts)

\* StrUtilT::GetDurationStr( totalSeconds, minDays ).
GetDurationStr(ts, md) ==
  LET totalHours == ts \div kSecondsPerHour
      totalDays  == totalHours \div kHoursPerDay
  IN  IF totalDays >= md
        THEN Decimal(totalDays) \o <<"d", ":">>
               \o VFormat(kHhMmSs, ts - totalDays * kSecondsPerDay)
        ELSE VFormat(IF totalHours = 0 THEN kMmSs ELSE kHhMmSs, ts)

\* Most whole days in a generated totalSeconds, and the largest minDays.
MaxDays == 5
MaxMinDays == 6

\* The minutes and the seconds a generated totalSeconds is made of.
DurFieldSamples == {0, 1, 9, 10, 59}

DurInputs ==
  { ((d * 24 + h) * 60 + m) * 60 + s :
      d \in 0..MaxDays, h \in 0..23, m \in DurFieldSamples,
      s \in DurFieldSamples }

InitDuration ==
  /\ pc = "call"
  /\ totalSeconds \in DurInputs
  /\ minDays \in 0..MaxMinDays
  /\ duration = <<>>
  /\ result = FALSE
  /\ IdleStr /\ IdleTrim /\ IdleFile /\ IdleXml /\ IdleList /\ IdleUtf

GetDurationStrCall ==
  /\ pc = "call"
  /\ duration' = GetDurationStr(totalSeconds, minDays)
  /\ pc' = "done"
  /\ UNCHANGED <<totalSeconds, minDays, strVars, trimVars, fileVars, xmlVars,
                 listVars, utfVars, result>>

NextDuration == GetDurationStrCall

SpecDuration == InitDuration /\ [][NextDuration]_vars

\* A number below 100 as exactly two digits.
Pair(n) ==
  << <<"0", "1", "2", "3", "4", "5", "6", "7", "8", "9">>[(n \div 10) + 1],
     <<"0", "1", "2", "3", "4", "5", "6", "7", "8", "9">>[(n % 10) + 1] >>

\* "MMm:SSs" of a number of seconds.
MinSecText(sec) ==
  Pair((sec % 3600) \div 60) \o <<"m", ":">> \o Pair(sec % 60) \o <<"s">>

IsDigitText(s) ==
  \A i \in 1..Len(s) : s[i] \in {"0", "1", "2", "3", "4", "5", "6", "7", "8", "9"}

\* The text is "HHh:MMm:SSs" with HH, MM and SS two digits each.
IsTwoDigitHhMmSs(s) ==
  /\ Len(s) = 11
  /\ IsDigitText(<<s[1], s[2], s[5], s[6], s[9], s[10]>>)
  /\ <<s[3], s[4], s[7], s[8], s[11]>> = <<"h", ":", "m", ":", "s">>

HoursText(n) == IF n < 100 THEN Pair(n) ELSE Decimal(n)

----------------------------------------------------------------------------
(* CharUtilT: file name characters.                                        *)

\* Invalid file name characters and their replacements.
kBadFileChars ==
  << [special |-> ":",  replacement |-> "-"],
     [special |-> "\"", replacement |-> "'"],
     [special |-> "<",  replacement |-> "("],
     [special |-> ">",  replacement |-> ")"],
     [special |-> "|",  replacement |-> "."],
     [special |-> "/",  replacement |-> "\\"] >>

\* Wildcards and their replacements.
kWildcardChars ==
  << [special |-> "*", replacement |-> "+"],
     [special |-> "?", replacement |-> " "] >>

\* The control characters among the modelled code units (std::iscntrl in
\* the classic locale: tab, line feed, form feed, carriage return).
ControlChars == {"\t", "\n", "\f", "\r"}

\* CharUtilT::IsControlChar.
IsControlChar(c) == c \in ControlChars

\* std::ranges::find_if( table, special == c ): the index of the first
\* entry for c, or 0 for the end of the table.
FindIf(table, c) ==
  LET hits == { i \in 1..Len(table) : table[i].special = c }
  IN  IF hits = {} THEN 0 ELSE CHOOSE i \in hits : \A j \in hits : i <= j

\* CharUtilT::IsWildcardFileChar.
IsWildcardFileChar(c) ==
  \E i \in 1..Len(kWildcardChars) : c = kWildcardChars[i].special

\* CharUtilT::IsGoodFileCharEx( c, allowWildcards ).
IsGoodFileCharEx(c, allow) ==
  IF IsControlChar(c) THEN FALSE
  ELSE IF \E i \in 1..Len(kBadFileChars) : c = kBadFileChars[i].special
    THEN FALSE
  ELSE IF allow = "No" /\ IsWildcardFileChar(c) THEN FALSE
  ELSE TRUE

\* CharUtilT::IsGoodFileCharWildcardsOK and CharUtilT::IsGoodFileChar.
IsGoodFileCharWildcardsOK(c) == IsGoodFileCharEx(c, "Yes")
IsGoodFileChar(c) == IsGoodFileCharEx(c, "No")

\* Mutation of ToGoodFileCharEx: control characters are not converted.
ToGoodFileCharEx_KeepsControl(c, convert) ==
  IF FindIf(kBadFileChars, c) # 0
    THEN kBadFileChars[FindIf(kBadFileChars, c)].replacement
  ELSE IF convert = "Yes" /\ FindIf(kWildcardChars, c) # 0
    THEN kWildcardChars[FindIf(kWildcardChars, c)].replacement
  ELSE c

\* CharUtilT::ToGoodFileCharEx( c, convertWildcards ).
ToGoodFileCharEx(c, convert) ==
  IF IsControlChar(c) THEN "!"
  ELSE IF FindIf(kBadFileChars, c) # 0
    THEN kBadFileChars[FindIf(kBadFileChars, c)].replacement
  ELSE IF convert = "Yes" /\ FindIf(kWildcardChars, c) # 0
    THEN kWildcardChars[FindIf(kWildcardChars, c)].replacement
  ELSE c

\* CharUtilT::ToGoodFileCharConvertWildcards and CharUtilT::ToGoodFileChar.
ToGoodFileCharConvertWildcards(c) == ToGoodFileCharEx(c, "Yes")
ToGoodFileChar(c) == ToGoodFileCharEx(c, "No")

----------------------------------------------------------------------------
(* SpecFileName: StrUtilT::ToGoodFileName and StrUtilT::IsGoodFileName.    *)

\* std::ranges::transform( str, begin( str ), F ): every unit mapped in
\* place, by ToGoodFileChar and by ToGoodFileCharConvertWildcards.
TransformToGood(s) == [i \in 1..Len(s) |-> ToGoodFileChar(s[i])]
TransformToGoodConvert(s) ==
  [i \in 1..Len(s) |-> ToGoodFileCharConvertWildcards(s[i])]

RECURSIVE RemoveIfLoop(_, _, _)
\* The loop of std::remove_if over the wildcards: i runs from first + 1 to
\* the end, and a unit that is kept is moved down to first.  Positions are
\* sequence indexes; the result is the string and the new end (first).
RemoveIfLoop(s, first, i) ==
  IF i > Len(s) THEN [s |-> s, removedBeg |-> first]
  ELSE IF ~IsWildcardFileChar(s[i])
    THEN RemoveIfLoop([s EXCEPT ![first] = s[i]], first + 1, i + 1)
  ELSE RemoveIfLoop(s, first, i + 1)

\* std::ranges::remove_if( str, IsWildcardFileChar ): find the first
\* wildcard, then move the kept units down; returns [removedBeg, end).
RemoveIf(s) ==
  LET hits  == { i \in 1..Len(s) : IsWildcardFileChar(s[i]) }
      first == IF hits = {} THEN Len(s) + 1
               ELSE CHOOSE i \in hits : \A j \in hits : i <= j
  IN  IF first > Len(s) THEN [s |-> s, removedBeg |-> first]
      ELSE RemoveIfLoop(s, first, first + 1)

\* str.erase( removedBeg, removedEnd ) with removedEnd the end of str.
EraseToEnd(s, removedBeg) == SubSeq(s, 1, removedBeg - 1)

\* Mutation of ToGoodFileName: str.erase( removedBeg ) erases one unit only.
ToGoodFileName_ErasesOne(s, convert) ==
  CASE convert = "Yes" -> TransformToGoodConvert(s)
    [] convert = "Remove" ->
         LET r == RemoveIf(TransformToGood(s))
         IN  SubSeq(r.s, 1, r.removedBeg - 1)
               \o SubSeq(r.s, r.removedBeg + 1, Len(r.s))
    [] OTHER -> TransformToGood(s)

\* StrUtilT::ToGoodFileName( str, convertWildcards ): the new value of str.
ToGoodFileName(s, convert) ==
  CASE convert = "Yes" -> TransformToGoodConvert(s)
    [] convert = "Remove" ->
         LET r == RemoveIf(TransformToGood(s))
         IN  EraseToEnd(r.s, r.removedBeg)
    [] OTHER -> TransformToGood(s)

\* StrUtilT::IsGoodFileName( str, allowWildcards ).
IsGoodFileName(s, allow) ==
  IF allow = "No" THEN \A i \in 1..Len(s) : IsGoodFileChar(s[i])
  ELSE \A i \in 1..Len(s) : IsGoodFileCharWildcardsOK(s[i])

\* Longest generated file name over the whole alphabet, and over the
\* alphabet of the wildcard patterns.
MaxFileLen == 2
MaxWildLen == 5

FileAlphabet ==
  { ":", "\"", "<", ">", "|", "/", "*", "?", "-", "'", "(", ")", ".", "\\",
    "+", " ", "!", "\t", "\n", "a" }

WildAlphabet == {"*", "?", "a", ":"}

FileExample == <<"m", "y", "*", "f", "i", "l", "e", "?", ".", "t", "x", "t">>

FileInputs ==
  StringsUpTo(FileAlphabet, MaxFileLen)
    \cup StringsUpTo(WildAlphabet, MaxWildLen) \cup {FileExample}

InitFileName ==
  /\ pc = "call"
  /\ str \in FileInputs
  /\ orig = str /\ prev = str /\ fn = "GoodFileName"
  /\ convertWildcards \in {"No", "Yes", "Remove"}
  /\ allowWildcards = ""
  /\ result = FALSE
  /\ IdleTrim /\ IdleXml /\ IdleDur /\ IdleList /\ IdleUtf

\* The caller sanitizes the name, and may sanitize the result once more.
ToGoodFileNameCall ==
  /\ pc \in {"call", "once"}
  /\ fn = "GoodFileName"
  /\ prev' = str
  /\ str' = ToGoodFileName(str, convertWildcards)
  /\ pc' = IF pc = "call" THEN "once" ELSE "twice"
  /\ UNCHANGED <<orig, fn, fileVars, trimVars, xmlVars, durVars, listVars,
                 utfVars, result>>

\* The caller validates the sanitized name.
IsGoodFileNameCall(allow) ==
  /\ pc = "once"
  /\ fn = "GoodFileName"
  /\ allowWildcards' = allow
  /\ result' = IsGoodFileName(str, allow)
  /\ pc' = "checked"
  /\ UNCHANGED <<strVars, convertWildcards, trimVars, xmlVars, durVars,
                 listVars, utfVars>>

NextFileName ==
  \/ ToGoodFileNameCall
  \/ \E allow \in {"No", "Yes"} : IsGoodFileNameCall(allow)

SpecFileName == InitFileName /\ [][NextFileName]_vars

\* The character the specification maps c to, wildcards left as they are.
GoodCharAsSpecified(c) ==
  IF c \in {"\t", "\n", "\f", "\r"} THEN "!"
  ELSE CASE c = ":"  -> "-"
         [] c = "\"" -> "'"
         [] c = "<"  -> "("
         [] c = ">"  -> ")"
         [] c = "|"  -> "."
         [] c = "/"  -> "\\"
         [] OTHER    -> c

NotStarOrQuestion(c) == c \notin {"*", "?"}

\* Every character mapped, then every '*' and '?' deleted, order kept.
RemovedAsSpecified(s) ==
  SelectSeq([i \in 1..Len(s) |-> GoodCharAsSpecified(s[i])], NotStarOrQuestion)

\* C4: ToGoodFileName(s, Remove) leaves s equal to every character mapped
\* through ToGoodFileChar and then every '*' and '?' deleted, the order of
\* the surviving characters kept and no other character dropped;
\* "my*file?.txt" becomes "myfile.txt".
C4_RemoveStripsWildcards ==
  (fn = "GoodFileName" /\ pc = "once" /\ convertWildcards = "Remove")
    => str = RemovedAsSpecified(orig)

\* C4's case: "my*file?.txt" has become "myfile.txt".
C4_Witness ==
  /\ pc = "once"
  /\ convertWildcards = "Remove"
  /\ orig = FileExample
  /\ str = <<"m", "y", "f", "i", "l", "e", ".", "t", "x", "t">>

\* The replacement characters of ToGoodFileCharEx.
Replacements ==
  {"!"} \cup { kBadFileChars[i].replacement : i \in 1..Len(kBadFileChars) }
        \cup { kWildcardChars[i].replacement : i \in 1..Len(kWildcardChars) }

\* C10: the validator accepts every sanitized name: after mode Yes or Remove
\* with wildcards not allowed, after mode No with wildcards allowed; no
\* replacement character is a control, bad or wildcard character; and
\* sanitizing a sanitized name changes nothing, in every mode.
C10_SanitizedIsGood ==
  fn = "GoodFileName" =>
    /\ (pc = "checked" /\ convertWildcards \in {"Yes", "Remove"}) => result
    /\ (pc = "checked" /\ convertWildcards = "No" /\ allowWildcards = "Yes")
         => result
    /\ pc = "twice" => str = prev
    /\ \A c \in Replacements :
         ~IsControlChar(c) /\ FindIf(kBadFileChars, c) = 0
            /\ ~IsWildcardFileChar(c)

\* C10's case: a name of a control, a bad and a wildcard character was
\* sanitized with the wildcards converted, and the validator that allows no
\* wildcards accepted it.
C10_Witness ==
  /\ pc = "checked"
  /\ convertWildcards = "Yes"
  /\ allowWildcards = "No"
  /\ \E i, j \in 1..Len(orig) : orig[i] = "\t" /\ orig[j] = "*"
  /\ str # orig
  /\ result

----------------------------------------------------------------------------
(* SpecTrim: StrUtilT::ToTrimmedLeading, ToTrimmedTrailing and ToTrimmed.  *)

\* Mutation of ToTrimmedLeading: the count is size - firstNot - 1.
ToTrimmedLeading_CountShort(s, set) ==
  IF FindFirstNotOf(s, set) = NPos THEN <<>>
  ELSE Assign(s, FindFirstNotOf(s, set), Len(s) - FindFirstNotOf(s, set) - 1)

\* StrUtilT::ToTrimmedLeading( str, trimCharset ): the new value of str.
ToTrimmedLeading(s, set) ==
  IF FindFirstNotOf(s, set) = NPos THEN <<>>
  ELSE Assign(s, FindFirstNotOf(s, set), Len(s) - FindFirstNotOf(s, set) + 1)

\* Mutation of ToTrimmedTrailing: resize( lastNot ) for resize( lastNot + 1 ).
ToTrimmedTrailing_ResizeShort(s, set) ==
  Resize(s, IF FindLastNotOf(s, set) = NPos THEN 0 ELSE FindLastNotOf(s, set))

\* StrUtilT::ToTrimmedTrailing( str, trimCharset ): the new value of str.
ToTrimmedTrailing(s, set) ==
  Resize(s, IF FindLastNotOf(s, set) = NPos THEN 0
            ELSE FindLastNotOf(s, set) + 1)

\* Mutation of ToTrimmed: trimCharset.find_last_not_of( str ), the operands
\* exchanged.
ToTrimmed_LastNot_OfCharset(s, set) == FindLastNotOf(set, s)

\* ToTrimmed's local lastNot, computed once the early return is passed.
ToTrimmed_LastNot(s, set) == FindLastNotOf(s, set)

\* StrUtilT::ToTrimmed( str, trimCharset ): the new value of str.
ToTrimmed(s, set) ==
  IF FindFirstNotOf(s, set) = NPos THEN <<>>
  ELSE Assign(s, FindFirstNotOf(s, set),
              ToTrimmed_LastNot(s, set) - FindFirstNotOf(s, set) + 1)

\* Longest generated string and trim set.
MaxTrimLen == 5
MaxSetLen == 2

TrimAlphabet == {" ", "a", "b"}

InitTrim ==
  /\ pc = "call"
  /\ str \in StringsUpTo(TrimAlphabet, MaxTrimLen)
  /\ orig = str /\ prev = str
  /\ fn \in {"Leading", "Trailing", "Both"}
  /\ trimCharset \in StringsUpTo(TrimAlphabet, MaxSetLen)
  /\ firstNot = NPos /\ lastNot = NPos
  /\ result = FALSE
  /\ IdleFile /\ IdleXml /\ IdleDur /\ IdleList /\ IdleUtf

\* The caller's position after one more call.
AfterCall == IF pc = "call" THEN "once" ELSE "twice"

ToTrimmedLeadingCall ==
  /\ pc \in {"call", "once"}
  /\ fn = "Leading"
  /\ firstNot' = FindFirstNotOf(str, trimCharset)
  /\ prev' = str
  /\ str' = ToTrimmedLeading(str, trimCharset)
  /\ pc' = AfterCall
  /\ UNCHANGED <<orig, fn, trimCharset, lastNot, fileVars, xmlVars, durVars,
                 listVars, utfVars, result>>

ToTrimmedTrailingCall ==
  /\ pc \in {"call", "once"}
  /\ fn = "Trailing"
  /\ lastNot' = FindLastNotOf(str, trimCharset)
  /\ prev' = str
  /\ str' = ToTrimmedTrailing(str, trimCharset)
  /\ pc' = AfterCall
  /\ UNCHANGED <<orig, fn, trimCharset, firstNot, fileVars, xmlVars, durVars,
                 listVars, utfVars, result>>

\* ToTrimmed: the early return leaves lastNot not computed; past it the
\* assertion lastNot != npos either holds or aborts the (debug) program.
ToTrimmedCall ==
  /\ pc \in {"call", "once"}
  /\ fn = "Both"
  /\ firstNot' = FindFirstNotOf(str, trimCharset)
  /\ prev' = str
  /\ IF firstNot' = NPos
       THEN /\ lastNot' = NPos
            /\ str' = <<>>
            /\ pc' = AfterCall
       ELSE /\ lastNot' = ToTrimmed_LastNot(str, trimCharset)
            /\ IF lastNot' = NPos
                 THEN str' = str /\ pc' = "assert failed"
                 ELSE str' = ToTrimmed(str, trimCharset) /\ pc' = AfterCall
  /\ UNCHANGED <<orig, fn, trimCharset, fileVars, xmlVars, durVars, listVars,
                 utfVars, result>>

NextTrim == ToTrimmedLeadingCall \/ ToTrimmedTrailingCall \/ ToTrimmedCall

SpecTrim == InitTrim /\ [][NextTrim]_vars

\* C5: GetTrimmed, GetTrimmedLeading and GetTrimmedTrailing are idempotent,
\* for every string and every trim set (the empty ones included): trimming
\* the trimmed string with the same set gives the same string.
C5_TrimIdempotent ==
  (fn \in {"Leading", "Trailing", "Both"} /\ pc = "twice") => str = prev

\* C5's case: a string that the first call shortened at both ends was
\* trimmed again.
C5_Witness ==
  /\ fn = "Both"
  /\ pc = "twice"
  /\ orig = <<" ", "a", " ", "b", " ">>
  /\ trimCharset = <<" ">>
  /\ str = <<"a", " ", "b">>

RECURSIVE LeadingRun(_, _)
\* The length of the longest prefix of s made of members of T.
LeadingRun(s, T) ==
  IF s = <<>> \/ Head(s) \notin T THEN 0 ELSE 1 + LeadingRun(Tail(s), T)

\* C6: GetTrimmedLeading(s, T) is the suffix of s that starts at the first
\* character not in T (empty when all of s is in T): as many characters are
\* removed as the leading run of members of T is long, each of them in T,
\* and nothing after the run is removed or altered.
C6_LeadingRemovesRunOnly ==
  (fn = "Leading" /\ pc = "once") =>
    LET run == LeadingRun(orig, Units(trimCharset))
    IN  /\ Len(str) + run = Len(orig)
        /\ \A i \in 1..run : orig[i] \in Units(trimCharset)
        /\ \A i \in 1..Len(str) : str[i] = orig[run + i]
        /\ (str # <<>> => str[1] \notin Units(trimCharset))

\* C6's case: two leading blanks removed, the inner and trailing ones kept.
C6_Witness ==
  /\ fn = "Leading"
  /\ pc = "once"
  /\ orig = <<" ", " ", "a", " ">>
  /\ trimCharset = <<" ">>
  /\ firstNot = 2
  /\ str = <<"a", " ">>

\* C9: in ToTrimmed, past the early return the assertion lastNot != npos
\* holds and firstNot <= lastNot < size, so the bounds given to assign are
\* valid and the count lastNot - firstNot + 1 is at least 1; the assertion
\* never fails.
C9_TrimBoundsValid ==
  /\ pc # "assert failed"
  /\ (fn = "Both" /\ pc \in {"once", "twice"} /\ firstNot # NPos) =>
       /\ lastNot # NPos
       /\ firstNot <= lastNot
       /\ lastNot < Len(prev)
       /\ lastNot - firstNot + 1 >= 1
       /\ Len(str) = lastNot - firstNot + 1

\* C9's case: ToTrimmed passed its early return with a single character
\* outside the trim set, where firstNot = lastNot.
C9_Witness ==
  /\ fn = "Both"
  /\ pc = "once"
  /\ orig = <<" ", "a", " ">>
  /\ trimCharset = <<" ", "b">>
  /\ firstNot = 1
  /\ lastNot = 1
  /\ str = <<"a">>

----------------------------------------------------------------------------
(* SpecList: two StrListT objects and operator==.                          *)

RECURSIVE ListEqLoop(_, _, _)
\* The loop of operator==: i and j step through lhs and rhs together (the
\* sequence index k stands for both) until i reaches lhs.end().
ListEqLoop(l, r, k) ==
  IF k > Len(l) THEN TRUE
  ELSE IF l[k] # r[k] THEN FALSE
  ELSE ListEqLoop(l, r, k + 1)

\* Mutation of operator==: no size check, the loop ends with the shorter list.
ListEq_NoSizeCheck(l, r) ==
  ListEqLoop(SubSeq(l, 1, Min(Len(l), Len(r))), r, 1)

\* operator==( lhs, rhs ) of StrListT.
ListEq(l, r) ==
  IF Len(l) # Len(r) THEN FALSE ELSE ListEqLoop(l, r, 1)

\* list_.insert( where, first, last ): the range put before position where.
ListInsert(l, where, range) ==
  SubSeq(l, 1, where) \o range \o SubSeq(l, where + 1, Len(l))

\* Most strings in a list, and in an inserted range.
MaxListLen == 3
MaxRangeLen == 2

ListStrings == { <<"a">>, <<"b">>, <<>> }

InitList ==
  /\ pc = "built"
  /\ lhs = <<>>
  /\ rhs = <<>>
  /\ result = FALSE
  /\ IdleStr /\ IdleTrim /\ IdleFile /\ IdleXml /\ IdleDur /\ IdleUtf

\* StrListT::push_back( s ) on lhs.
PushBackLhs(s) ==
  /\ Len(lhs) < MaxListLen
  /\ lhs' = Append(lhs, s)
  /\ pc' = "built"
  /\ UNCHANGED <<rhs, strVars, trimVars, fileVars, xmlVars, durVars, utfVars,
                 result>>

\* StrListT::push_back( s ) on rhs.
PushBackRhs(s) ==
  /\ Len(rhs) < MaxListLen
  /\ rhs' = Append(rhs, s)
  /\ pc' = "built"
  /\ UNCHANGED <<lhs, strVars, trimVars, fileVars, xmlVars, durVars, utfVars,
                 result>>

\* StrListT::insert( where, first, last ) on lhs.
InsertLhs(where, range) ==
  /\ where \in 0..Len(lhs)
  /\ Len(lhs) + Len(range) <= MaxListLen
  /\ lhs' = ListInsert(lhs, where, range)
  /\ pc' = "built"
  /\ UNCHANGED <<rhs, strVars, trimVars, fileVars, xmlVars, durVars, utfVars,
                 result>>

\* StrListT::insert( where, first, last ) on rhs.
InsertRhs(where, range) ==
  /\ where \in 0..Len(rhs)
  /\ Len(rhs) + Len(range) <= MaxListLen
  /\ rhs' = ListInsert(rhs, where, range)
  /\ pc' = "built"
  /\ UNCHANGED <<lhs, strVars, trimVars, fileVars, xmlVars, durVars, utfVars,
                 result>>

\* StrListT::clear() on lhs.
ClearLhs ==
  /\ lhs' = <<>>
  /\ pc' = "built"
  /\ UNCHANGED <<rhs, strVars, trimVars, fileVars, xmlVars, durVars, utfVars,
                 result>>

\* StrListT::clear() on rhs.
ClearRhs ==
  /\ rhs' = <<>>
  /\ pc' = "built"
  /\ UNCHANGED <<lhs, strVars, trimVars, fileVars, xmlVars, durVars, utfVars,
                 result>>

\* The caller evaluates lhs == rhs.
Compare ==
  /\ result' = ListEq(lhs, rhs)
  /\ pc' = "compared"
  /\ UNCHANGED <<listVars, strVars, trimVars, fileVars, xmlVars, durVars,
                 utfVars>>

NextList ==
  \/ \E s \in ListStrings : PushBackLhs(s) \/ PushBackRhs(s)
  \/ \E where \in 0..MaxListLen, range \in StringsUpTo(ListStrings, MaxRangeLen) :
       InsertLhs(where, range) \/ InsertRhs(where, range)
  \/ ClearLhs
  \/ ClearRhs
  \/ Compare

SpecList == InitList /\ [][NextList]_vars

\* How often the string s occurs in the list l.
Occurrences(l, s) == Cardinality({ i \in 1..Len(l) : l[i] = s })

\* C7: for lists produced by any push_back, insert and clear, operator==
\* is true iff the lists have the same size and equal strings at every
\* position in order; so lists built alike are equal, and lists holding
\* the same strings equally often in another order are not.
C7_ListEqualityInOrder ==
  pc = "compared" =>
    /\ result <=>
         (Len(lhs) = Len(rhs) /\ \A i \in 1..Len(lhs) : lhs[i] = rhs[i])
    /\ ( /\ \A s \in ListStrings : Occurrences(lhs, s) = Occurrences(rhs, s)
         /\ \E i \in 1..Len(lhs) : lhs[i] # rhs[i] ) => ~result

\* C7's case: the same two strings in the other order compare unequal.
C7_Witness ==
  /\ pc = "compared"
  /\ lhs = << <<"a">>, <<"b">> >>
  /\ rhs = << <<"b">>, <<"a">> >>
  /\ ~result

----------------------------------------------------------------------------
(* SpecUtf: StringUtil::GetUtf16 and StringUtil::GetUtf8.                  *)

\* The builds the conversions are modelled for.  Whether char is signed and
\* how wide and how signed wchar_t is are the implementation's choice:
\* Windows x64 (MSVC), Linux x86-64 and Linux AArch64.
Builds ==
  { [charSigned |-> TRUE,  wcharBits |-> 16, wcharSigned |-> FALSE],
    [charSigned |-> TRUE,  wcharBits |-> 32, wcharSigned |-> TRUE],
    [charSigned |-> FALSE, wcharBits |-> 32, wcharSigned |-> FALSE] }

\* The value of the char whose 8 bits are the unit u.
CharValue(u, b) == IF b.charSigned /\ u >= 128 THEN u - 256 ELSE u

\* A char value converted to wchar_t: kept when wchar_t can hold it, else
\* reduced modulo 2^wcharBits.
CharToWide(v, b) ==
  IF v >= 0 \/ b.wcharSigned THEN v ELSE v + 2 ^ b.wcharBits

\* A wchar_t value converted to char: its low 8 bits.
WideToChar(w) == w % 256

\* TransformTo<std::wstring>( str ): the wide string built from the range.
GetUtf16(s, b) == [i \in 1..Len(s) |-> CharToWide(CharValue(s[i], b), b)]

\* TransformTo<std::string>( wstr ): the narrow string built from the range.
GetUtf8(w) == [i \in 1..Len(w) |-> WideToChar(w[i])]

\* Longest generated string of the conversions.
MaxUtfLen == 3

\* Units of narrow arguments ('A', DEL, 0x80, 0xE9, 0xFF) and values of wide
\* arguments ('A', 0xE9, 0x100, 0x141, 0xFFE9).
NarrowUnits == {65, 127, 128, 233, 255}
WideUnits == {65, 233, 256, 321, 65513}

InitUtf ==
  /\ build \in Builds
  /\ \/ /\ pc = "narrow"
        /\ narrow \in StringsUpTo(NarrowUnits, MaxUtfLen)
        /\ wide = <<>>
     \/ /\ pc = "wide"
        /\ narrow = <<>>
        /\ wide \in StringsUpTo(WideUnits, MaxUtfLen)
  /\ orig = narrow
  /\ prev = wide
  /\ str = <<>>
  /\ fn = "Utf"
  /\ result = FALSE
  /\ IdleTrim /\ IdleFile /\ IdleXml /\ IdleDur /\ IdleList

\* The caller widens its narrow string.
GetUtf16Call ==
  /\ pc = "narrow"
  /\ wide' = GetUtf16(narrow, build)
  /\ pc' = "widened"
  /\ UNCHANGED <<build, narrow, strVars, trimVars, fileVars, xmlVars, durVars,
                 listVars, result>>

\* The caller narrows a wide string: its own, or the one GetUtf16 returned.
GetUtf8Call ==
  /\ pc \in {"wide", "widened"}
  /\ narrow' = GetUtf8(wide)
  /\ pc' = IF pc = "wide" THEN "narrowed" ELSE "round trip"
  /\ UNCHANGED <<build, wide, strVars, trimVars, fileVars, xmlVars, durVars,
                 listVars, result>>

NextUtf == GetUtf16Call \/ GetUtf8Call

SpecUtf == InitUtf /\ [][NextUtf]_vars

\* C8: GetUtf16(s) has the length of s and its i-th unit is the i-th narrow
\* unit zero-extended (the units 0x80..0xFF included); GetUtf8(w) has the
\* length of w and its i-th unit is the low 8 bits of the i-th wide unit;
\* so GetUtf8(GetUtf16(s)) = s.
C8_ZeroExtendAndTruncate ==
  /\ pc = "widened" =>
       /\ Len(wide) = Len(narrow)
       /\ \A i \in 1..Len(narrow) : wide[i] = narrow[i]
  /\ pc = "narrowed" =>
       /\ Len(narrow) = Len(wide)
       /\ \A i \in 1..Len(wide) : narrow[i] = wide[i] % 256
  /\ pc = "round trip" => narrow = orig

\* The part of C8 the code satisfies on every build: the lengths, the
\* zero-extension of the units below 0x80, the truncation and the round
\* trip.
C8_HoldsBelowHighBit ==
  /\ pc = "widened" =>
       /\ Len(wide) = Len(narrow)
       /\ \A i \in 1..Len(narrow) : narrow[i] < 128 => wide[i] = narrow[i]
  /\ pc = "narrowed" =>
       /\ Len(narrow) = Len(wide)
       /\ \A i \in 1..Len(wide) : narrow[i] = wide[i] % 256
  /\ pc = "round trip" => narrow = orig

=============================================================================
